---- MODULE Spec2Model ----
(***************************************************************************)
(* Model of the audio path of the image-captioning app:                    *)
(*   geminiService: generateSpeech, decodeBase64, decodeAudioData          *)
(*   components/AudioControl: handlePlay                                   *)
(*   App: image upload, Clear, startAnalysis, handleLanguageChange         *)
(* Four specifications share the variables:                                *)
(*   SpecDecode   - decodeAudioData applied to bounded byte buffers        *)
(*   SpecPipeline - decodeBase64 followed by decodeAudioData               *)
(*   Spec         - handlePlay invocations on one AudioControl instance    *)
(*   SpecApp      - the App component's uploads, analyses and translations *)
(***************************************************************************)
EXTENDS Integers, Sequences, FiniteSets, TLC

\* ------------------------------------------------------------------ bounds
MaxBytes == 12
MaxChannels == 3
MaxB64Len == 6
MaxRespLen == 4
NumSlots == 2
MaxUploads == 2
MaxInFlight == 2

\* ------------------------------------------------------- program constants
DefaultSampleRate == 24000
DefaultNumChannels == 1
Int16Scale == 32768

\* ------------------------------------------------------------ input domains
ByteVals == {0, 255}
SampleRates == {DefaultSampleRate, 48000}
InputChars == {"A", "/", "=", "!"}

SeqsUpTo(S, n) == UNION {[1..k -> S] : k \in 0..n}

\* ------------------------------------------------------------------ values
\* A float sample is kept as an exact fraction in lowest terms (every
\* int16 / 32768 is exactly representable in a Float32Array element).
RECURSIVE Gcd(_, _)
Gcd(a, b) == IF b = 0 THEN a ELSE Gcd(b, a % b)

Abs(n) == IF n < 0 THEN -n ELSE n

Rat(n, d) == LET g == Gcd(Abs(n), d) IN [num |-> n \div g, den |-> d \div g]

Zero == Rat(0, 1)
NaN == [num |-> 0, den |-> 0]

\* ----------------------------------------------------------------- base64
B64Alphabet ==
  << "A","B","C","D","E","F","G","H","I","J","K","L","M","N","O","P",
     "Q","R","S","T","U","V","W","X","Y","Z","a","b","c","d","e","f",
     "g","h","i","j","k","l","m","n","o","p","q","r","s","t","u","v",
     "w","x","y","z","0","1","2","3","4","5","6","7","8","9","+","/" >>

AsciiWhitespace == {" ", "\t", "\n", "\f", "\r"}

IsB64Char(c) == \E i \in 1..64 : B64Alphabet[i] = c

B64Index(c) == (CHOOSE i \in 1..64 : B64Alphabet[i] = c) - 1

\* JavaScript values handed to decodeBase64: null, undefined or a string
\* (a sequence of one-character strings).
JsNull == [tag |-> "null", chars |-> << >>]
JsUndefined == [tag |-> "undefined", chars |-> << >>]
JsString(s) == [tag |-> "string", chars |-> s]

Falsy(v) == v.tag \in {"null", "undefined"} \/ v.chars = << >>

\* Remove one or two trailing "=" (only applied when the length is a
\* multiple of 4).
StripPadding(s) ==
  LET n == Len(s) IN
  IF n >= 2 /\ s[n] = "=" /\ s[n-1] = "=" THEN SubSeq(s, 1, n - 2)
  ELSE IF n >= 1 /\ s[n] = "=" THEN SubSeq(s, 1, n - 1)
  ELSE s

\* Byte j (0-based) of the bit stream formed by the 6-bit values of s.
B64Byte(s, j) ==
  LET g == 4 * (j \div 3)
      v(k) == IF g + k <= Len(s) THEN B64Index(s[g + k]) ELSE 0
  IN CASE j % 3 = 0 -> v(1) * 4 + (v(2) \div 16)
       [] j % 3 = 1 -> (v(2) % 16) * 16 + (v(3) \div 4)
       [] OTHER     -> (v(3) % 4) * 64 + v(4)

\* Mutant: characters outside the alphabet are skipped instead of rejected.
atob_Lenient(str) ==
  LET d == SelectSeq(str, IsB64Char)
  IN [threw |-> FALSE, error |-> "",
      value |-> [j \in 1..((6 * Len(d)) \div 8) |-> B64Byte(d, j - 1)]]

\* window.atob: the forgiving-base64 decode. Returns the binary string as
\* the sequence of its code units, or the exception it raises.
atob(str) ==
  LET noWs == SelectSeq(str, LAMBDA c : c \notin AsciiWhitespace)
      d == IF Len(noWs) % 4 = 0 THEN StripPadding(noWs) ELSE noWs
  IN IF Len(d) % 4 = 1 \/ \E i \in 1..Len(d) : ~IsB64Char(d[i])
     THEN [threw |-> TRUE, error |-> "InvalidCharacterError", value |-> << >>]
     ELSE [threw |-> FALSE, error |-> "",
           value |-> [j \in 1..((6 * Len(d)) \div 8) |-> B64Byte(d, j - 1)]]

\* Mutant: the copy loop and the allocation stop one character short.
Uint8FromBinaryString_DropLast(binaryString) ==
  [i \in 1..(IF Len(binaryString) = 0 THEN 0 ELSE Len(binaryString) - 1) |->
     binaryString[i] % 256]

\* new Uint8Array(binaryString.length) filled with the char codes.
Uint8FromBinaryString(binaryString) ==
  [i \in 1..Len(binaryString) |-> binaryString[i] % 256]

decodeBase64(base64) ==
  IF Falsy(base64)
  THEN [threw |-> FALSE, error |-> "", value |-> << >>]
  ELSE LET binaryString == atob(base64.chars) IN
       IF binaryString.threw THEN binaryString
       ELSE [threw |-> FALSE, error |-> "",
             value |-> Uint8FromBinaryString(binaryString.value)]

\* -------------------------------------------------------- decodeAudioData
\* The Uint8Array decodeBase64 allocates views its whole ArrayBuffer.
Uint8ByteOffset == 0

NoBuffer ==
  [kind |-> "none", error |-> "", numberOfChannels |-> 0, length |-> 0,
   sampleRate |-> 0, channelData |-> << >>]

NoRequest == [numberOfChannels |-> 0, length |-> 0, sampleRate |-> 0]

\* BaseAudioContext.createBuffer: a new buffer of silence, or
\* NotSupportedError when the length is zero.
createBuffer(numberOfChannels, length, sampleRate) ==
  IF length <= 0 \/ numberOfChannels <= 0
  THEN [kind |-> "throw", error |-> "NotSupportedError",
        numberOfChannels |-> 0, length |-> 0, sampleRate |-> 0,
        channelData |-> << >>]
  ELSE [kind |-> "AudioBuffer", error |-> "",
        numberOfChannels |-> numberOfChannels, length |-> length,
        sampleRate |-> sampleRate,
        channelData |-> [c \in 1..numberOfChannels |->
                           [i \in 1..length |-> Zero]]]

\* Mutant: the empty-input guard is missing.
IsEmptyData_Never(data) == FALSE

\* !data || data.length === 0 (data is never null here)
IsEmptyData(data) == Len(data) = 0

\* byteLength % 2 === 0 ? data.buffer : data.buffer.slice(0, byteLength - 1)
BufferToUse(data) ==
  IF Len(data) % 2 = 0 THEN data ELSE SubSeq(data, 1, Len(data) - 1)

\* Mutant: the two bytes of a sample read in big-endian order.
Int16At_BigEndian(buffer, byteIndex) ==
  LET u == 256 * buffer[byteIndex + 1] + buffer[byteIndex + 2]
  IN IF u >= 32768 THEN u - 65536 ELSE u

ToInt16(u) == IF u >= 32768 THEN u - 65536 ELSE u

\* Element of an Int16Array at a byte index of its buffer (little-endian).
Int16At(buffer, byteIndex) ==
  ToInt16(buffer[byteIndex + 1] + 256 * buffer[byteIndex + 2])

Int16Array(buffer, byteOffset, length) ==
  [k \in 1..length |-> Int16At(buffer, byteOffset + 2 * (k - 1))]

\* Mutant: an odd buffer is padded with a zero byte and rounded up.
PcmSamples_PadOdd(data) ==
  LET padded == IF Len(data) % 2 = 0 THEN data ELSE Append(data, 0)
  IN [k \in 1..(Len(padded) \div 2) |->
        LET u == padded[2 * k - 1] + 256 * padded[2 * k]
        IN IF u >= 32768 THEN u - 65536 ELSE u]

\* const byteLength .. const dataInt16 = new Int16Array(bufferToUse,
\* data.byteOffset, Math.floor(byteLength / 2)). The view always fits the
\* buffer, so the constructor's RangeError cannot arise.
PcmSamples(data) ==
  Int16Array(BufferToUse(data), Uint8ByteOffset, Len(data) \div 2)

\* Mutant: the frame count rounded up.
FloorFrames_Ceil(sampleCount, numChannels) ==
  (sampleCount + numChannels - 1) \div numChannels

\* Math.floor(dataInt16.length / numChannels)
FloorFrames(sampleCount, numChannels) == sampleCount \div numChannels

\* Reading a typed array out of bounds gives undefined; undefined / 32768
\* is NaN.
SampleToFloat(dataInt16, index) ==
  IF index < Len(dataInt16) THEN Rat(dataInt16[index + 1], Int16Scale) ELSE NaN

\* Writing a typed array out of bounds is a no-op.
TypedArraySet(array, index, value) ==
  IF index < Len(array) THEN [array EXCEPT ![index + 1] = value] ELSE array

\* for (let i = 0; i < frameCount; i++) with frameCount the real quotient
\* dataInt16.length / numChannels: i < frameCount iff i * numChannels < length.
RECURSIVE FillChannel(_, _, _, _, _)
FillChannel(channelData, dataInt16, numChannels, channel, i) ==
  IF i * numChannels < Len(dataInt16)
  THEN FillChannel(
         TypedArraySet(channelData, i,
                       SampleToFloat(dataInt16, i * numChannels + channel)),
         dataInt16, numChannels, channel, i + 1)
  ELSE channelData

\* Returns the createBuffer call it made and its outcome: the AudioBuffer
\* or the exception that rejects the promise.
decodeAudioData(data, sampleRate, numChannels) ==
  IF IsEmptyData(data)
  THEN [request |-> [numberOfChannels |-> numChannels, length |-> 1,
                     sampleRate |-> sampleRate],
        outcome |-> createBuffer(numChannels, 1, sampleRate)]
  ELSE
    LET dataInt16 == PcmSamples(data)
        length == FloorFrames(Len(dataInt16), numChannels)
        buffer == createBuffer(numChannels, length, sampleRate)
    IN [request |-> [numberOfChannels |-> numChannels, length |-> length,
                     sampleRate |-> sampleRate],
        outcome |->
          IF buffer.kind = "throw" THEN buffer
          ELSE [buffer EXCEPT !.channelData =
                  [c \in 1..numChannels |->
                     FillChannel(buffer.channelData[c], dataInt16,
                                 numChannels, c - 1, 0)]]]

\* --------------------------------------------------------- generateSpeech
\* What ai.models.generateContent settles with: a rejection, or a response
\* whose first inline data part is undefined, null or a string.
NoResponse == [settled |-> FALSE, failed |-> FALSE, data |-> JsUndefined]

Responses ==
  {[settled |-> TRUE, failed |-> TRUE, data |-> JsUndefined]} \cup
  {[settled |-> TRUE, failed |-> FALSE, data |-> d] :
     d \in {JsUndefined, JsNull} \cup
           {JsString(s) : s \in SeqsUpTo(InputChars, MaxRespLen)}}

\* Mutant: the check for missing audio data is left out.
generateSpeech_NoCheck(response) ==
  IF response.failed
  THEN [threw |-> TRUE, error |-> "ApiError", value |-> JsUndefined]
  ELSE [threw |-> FALSE, error |-> "", value |-> response.data]

generateSpeech(response) ==
  IF response.failed
  THEN [threw |-> TRUE, error |-> "ApiError", value |-> JsUndefined]
  ELSE LET base64Audio == response.data IN
       IF Falsy(base64Audio)
       THEN [threw |-> TRUE, error |-> "Audio generation failed.",
             value |-> JsUndefined]
       ELSE [threw |-> FALSE, error |-> "", value |-> base64Audio]

\* ------------------------------------------------------------ AudioControl
Slots == 1..NumSlots

\* Mutant: a context is constructed on every call.
NeedsNewContext_Always(ref) == TRUE

\* !audioCtxRef.current (0 stands for null)
NeedsNewContext(ref) == ref = 0

NoLocals == [base64Audio |-> JsUndefined, bytes |-> << >>, audioBuffer |-> NoBuffer]

NoCall ==
  [slot |-> 0, log |-> << >>, reused |-> FALSE, suspendedAtCheck |-> FALSE,
   response |-> NoResponse, raised |-> "", request |-> NoRequest,
   buffer |-> NoBuffer, finished |-> FALSE, isPlayingAtEnd |-> FALSE]

Logged(c, name) == \E i \in 1..Len(c.log) : c.log[i] = name

\* --------------------------------------------------------------------- App
\* SUPPORTED_LANGUAGES by code; the language of code "en" is the one named
\* "English".
Langs == {"en", "es", "fr"}

\* An AnalysisResult is kept as the image it describes and the language it
\* is written in; null is NoResult.
NoResult == [image |-> 0, lang |-> "none"]

\* What the service answers to analyzeImage(base64Data): the English
\* analysis of that image.
analyzeImage(img) == [image |-> img, lang |-> "en"]

\* translateResult: the result itself for English, else what the service
\* answers: the same analysis in the target language.
translateResult(r, targetLanguage) ==
  IF targetLanguage = "en" THEN r ELSE [r EXCEPT !.lang = targetLanguage]

NoAnalysis == [pc |-> "idle", image |-> 0, lang |-> "none", data |-> NoResult]

\* ------------------------------------------------------------------- state
VARIABLES
  \* decoder runs (SpecDecode, SpecPipeline)
  stage,        \* "base64", "bytes", "raised", "decoded", "compared"
  input,        \* the value handed to decodeBase64
  data,         \* the Uint8Array handed to decodeAudioData
  numChannels,
  sampleRate,
  request,      \* the createBuffer call decodeAudioData made
  result,       \* what decodeAudioData produced
  dataAlt,      \* second run: data with another final byte
  resultAlt,
  thrown,       \* the exception decodeBase64 raised, "" if none
  \* one AudioControl instance (Spec)
  isPlaying,
  loading,
  audioCtxRef,      \* 0 (null) or the number of the AudioContext it holds
  contextsCreated,  \* AudioContexts constructed so far
  ctxState,         \* "none", "suspended", "running"
  pc,               \* per handlePlay invocation: where it is suspended
  locals,           \* per invocation: base64Audio, bytes, audioBuffer
  sources,          \* buffer sources started and not yet ended
  call,             \* history of the latest invocation that passed the guard
  \* the App component (SpecApp)
  image,            \* 0 (null) or the number of the upload it shows
  uploads,          \* files chosen so far
  reads,            \* uploads a FileReader is still reading
  isAnalyzing,
  isTranslating,
  englishResult,
  translatedResult,
  selectedLang,
  error,            \* "none" (null), "analysis", "translation"
  analysis,         \* the startAnalysis call in progress and what it captured
  translations,     \* handleLanguageChange calls awaiting translateResult
  requestFailed     \* has any service request failed

decoderVars ==
  << stage, input, data, numChannels, sampleRate, request, result,
     dataAlt, resultAlt, thrown >>

appVars ==
  << isPlaying, loading, audioCtxRef, contextsCreated, ctxState, pc, locals,
     sources, call >>

captionVars ==
  << image, uploads, reads, isAnalyzing, isTranslating, englishResult,
     translatedResult, selectedLang, error, analysis, translations,
     requestFailed >>

vars == << decoderVars, appVars, captionVars >>

\* useState initial values; selectedLang starts as SUPPORTED_LANGUAGES[0].
CaptionInitial(lang) ==
  /\ image = 0
  /\ uploads = 0
  /\ reads = {}
  /\ isAnalyzing = FALSE
  /\ isTranslating = FALSE
  /\ englishResult = NoResult
  /\ translatedResult = NoResult
  /\ selectedLang = lang
  /\ error = "none"
  /\ analysis = NoAnalysis
  /\ translations = << >>
  /\ requestFailed = FALSE

CaptionIdle == CaptionInitial("en")

AppIdle ==
  /\ isPlaying = FALSE
  /\ loading = FALSE
  /\ audioCtxRef = 0
  /\ contextsCreated = 0
  /\ ctxState = "none"
  /\ pc = [p \in Slots |-> "idle"]
  /\ locals = [p \in Slots |-> NoLocals]
  /\ sources = 0
  /\ call = NoCall

\* ------------------------------------------- decodeAudioData on byte buffers
InitDecode ==
  /\ stage = "bytes"
  /\ input = JsUndefined
  /\ data \in SeqsUpTo(ByteVals, MaxBytes)
  /\ numChannels \in 1..MaxChannels
  /\ sampleRate \in SampleRates
  /\ request = NoRequest
  /\ result = NoBuffer
  /\ dataAlt = << >>
  /\ resultAlt = NoBuffer
  /\ thrown = ""
  /\ AppIdle
  /\ CaptionIdle

\* One call decodeAudioData(data, ctx, sampleRate, numChannels).
PcmInterpret ==
  /\ stage = "bytes"
  /\ LET r == decodeAudioData(data, sampleRate, numChannels) IN
       /\ request' = r.request
       /\ result' = r.outcome
  /\ stage' = "decoded"
  /\ UNCHANGED << input, data, numChannels, sampleRate, dataAlt, resultAlt,
                  thrown, appVars, captionVars >>

\* A second call on a buffer that differs from data in its final byte only.
PcmInterpretAlt ==
  /\ stage = "decoded"
  /\ Len(data) % 2 = 1
  /\ \E b \in ByteVals \ {data[Len(data)]} :
       /\ dataAlt' = [data EXCEPT ![Len(data)] = b]
       /\ resultAlt' = decodeAudioData(dataAlt', sampleRate, numChannels).outcome
  /\ stage' = "compared"
  /\ UNCHANGED << input, data, numChannels, sampleRate, request, result,
                  thrown, appVars, captionVars >>

NextDecode == PcmInterpret \/ PcmInterpretAlt

SpecDecode == InitDecode /\ [][NextDecode]_vars

\* ------------------------------------ decodeBase64, then decodeAudioData
Base64Inputs ==
  {JsNull, JsUndefined} \cup {JsString(s) : s \in SeqsUpTo(InputChars, MaxB64Len)}

InitPipeline ==
  /\ stage = "base64"
  /\ input \in Base64Inputs
  /\ data = << >>
  /\ numChannels \in 1..MaxChannels
  /\ sampleRate \in SampleRates
  /\ request = NoRequest
  /\ result = NoBuffer
  /\ dataAlt = << >>
  /\ resultAlt = NoBuffer
  /\ thrown = ""
  /\ AppIdle
  /\ CaptionIdle

\* One call decodeBase64(input): the bytes, or the exception atob raises.
DecodeBase64Step ==
  /\ stage = "base64"
  /\ LET r == decodeBase64(input) IN
       /\ stage' = IF r.threw THEN "raised" ELSE "bytes"
       /\ thrown' = r.error
       /\ data' = r.value
  /\ UNCHANGED << input, numChannels, sampleRate, request, result, dataAlt,
                  resultAlt, appVars, captionVars >>

NextPipeline == DecodeBase64Step \/ PcmInterpret

SpecPipeline == InitPipeline /\ [][NextPipeline]_vars

\* ------------------------------------------------- AudioControl.handlePlay
Init ==
  /\ stage = "app"
  /\ input = JsUndefined
  /\ data = << >>
  /\ numChannels = DefaultNumChannels
  /\ sampleRate = DefaultSampleRate
  /\ request = NoRequest
  /\ result = NoBuffer
  /\ dataAlt = << >>
  /\ resultAlt = NoBuffer
  /\ thrown = ""
  /\ AppIdle
  /\ CaptionIdle

\* catch: console.error, alert, setIsPlaying(false); finally: setLoading(false)
Fail(p, c) ==
  /\ isPlaying' = FALSE
  /\ loading' = FALSE
  /\ pc' = [pc EXCEPT ![p] = "idle"]
  /\ locals' = [locals EXCEPT ![p] = NoLocals]
  /\ call' = [c EXCEPT !.log = Append(@, "alert"), !.finished = TRUE,
                       !.isPlayingAtEnd = FALSE]

\* if (loading || isPlaying) return;
ClickIgnored(p) ==
  /\ pc[p] = "idle"
  /\ loading \/ isPlaying
  /\ UNCHANGED vars

\* handlePlay up to its first await: setLoading(true), the context is
\* constructed if the ref is empty, then either resume() or generateSpeech
\* is called. A new context starts suspended or running.
Click(p) ==
  /\ pc[p] = "idle"
  /\ ~(loading \/ isPlaying)
  /\ \E created \in {"suspended", "running"} :
       LET fresh == NeedsNewContext(audioCtxRef)
           st == IF fresh THEN created ELSE ctxState
       IN /\ audioCtxRef' = IF fresh THEN contextsCreated + 1 ELSE audioCtxRef
          /\ contextsCreated' = IF fresh THEN contextsCreated + 1
                                 ELSE contextsCreated
          /\ ctxState' = st
          /\ pc' = [pc EXCEPT ![p] = IF st = "suspended" THEN "awaitResume"
                                     ELSE "awaitSpeech"]
          /\ call' = [NoCall EXCEPT
                        !.slot = p,
                        !.reused = ~fresh,
                        !.suspendedAtCheck = (st = "suspended"),
                        !.log = IF st = "suspended" THEN << "resume" >>
                                ELSE << "generateSpeech" >>]
  /\ loading' = TRUE
  /\ UNCHANGED << decoderVars, captionVars, isPlaying, locals, sources >>

\* The AudioContext constructor throws: the catch and finally blocks run.
ClickContextFails(p) ==
  /\ pc[p] = "idle"
  /\ ~(loading \/ isPlaying)
  /\ NeedsNewContext(audioCtxRef)
  /\ Fail(p, [NoCall EXCEPT !.slot = p, !.raised = "NotSupportedError"])
  /\ UNCHANGED << decoderVars, captionVars, audioCtxRef, contextsCreated, ctxState, sources >>

\* await audioCtxRef.current.resume() fulfils; generateSpeech is called.
ResumeFulfilled(p) ==
  /\ pc[p] = "awaitResume"
  /\ ctxState' = "running"
  /\ pc' = [pc EXCEPT ![p] = "awaitSpeech"]
  /\ call' = [call EXCEPT !.log = Append(@, "generateSpeech")]
  /\ UNCHANGED << decoderVars, captionVars, isPlaying, loading, audioCtxRef,
                  contextsCreated, locals, sources >>

ResumeRejected(p) ==
  /\ pc[p] = "awaitResume"
  /\ Fail(p, [call EXCEPT !.raised = "InvalidStateError"])
  /\ UNCHANGED << decoderVars, captionVars, audioCtxRef, contextsCreated, ctxState, sources >>

\* The speech request settles: generateSpeech returns or throws, then
\* decodeBase64 and the call of decodeAudioData run up to the next await.
SpeechSettled(p) ==
  /\ pc[p] = "awaitSpeech"
  /\ \E response \in Responses :
       LET g == generateSpeech(response)
           c1 == [call EXCEPT !.response = response]
       IN IF g.threw
          THEN Fail(p, [c1 EXCEPT !.raised = g.error])
          ELSE
            LET b == decodeBase64(g.value)
                c2 == [c1 EXCEPT !.log = Append(@, "decodeBase64")]
            IN IF b.threw
               THEN Fail(p, [c2 EXCEPT !.raised = b.error])
               ELSE
                 LET d == decodeAudioData(b.value, DefaultSampleRate,
                                          DefaultNumChannels)
                 IN /\ pc' = [pc EXCEPT ![p] = "awaitDecode"]
                    /\ locals' = [locals EXCEPT ![p] =
                                    [base64Audio |-> g.value,
                                     bytes |-> b.value,
                                     audioBuffer |-> d.outcome]]
                    /\ call' = [c2 EXCEPT !.log = Append(@, "decodeAudioData"),
                                          !.request = d.request]
                    /\ UNCHANGED << isPlaying, loading >>
  /\ UNCHANGED << decoderVars, captionVars, audioCtxRef, contextsCreated, ctxState, sources >>

\* await decodeAudioData(..) settles: on a buffer, the source is created,
\* connected and started and isPlaying set; on a rejection, the catch runs.
DecodeSettled(p) ==
  /\ pc[p] = "awaitDecode"
  /\ IF locals[p].audioBuffer.kind = "throw"
     THEN /\ Fail(p, [call EXCEPT !.raised = locals[p].audioBuffer.error])
          /\ UNCHANGED sources
     ELSE /\ sources' = sources + 1
          /\ isPlaying' = TRUE
          /\ loading' = FALSE
          /\ pc' = [pc EXCEPT ![p] = "idle"]
          /\ locals' = [locals EXCEPT ![p] = NoLocals]
          /\ call' = [call EXCEPT !.log = Append(@, "start"),
                                  !.buffer = locals[p].audioBuffer,
                                  !.finished = TRUE,
                                  !.isPlayingAtEnd = TRUE]
  /\ UNCHANGED << decoderVars, captionVars, audioCtxRef, contextsCreated, ctxState >>

\* source.onended: setIsPlaying(false)
SourceEnded ==
  /\ sources > 0
  /\ sources' = sources - 1
  /\ isPlaying' = FALSE
  /\ UNCHANGED << decoderVars, captionVars, loading, audioCtxRef, contextsCreated,
                  ctxState, pc, locals, call >>

Next ==
  \/ \E p \in Slots : ClickIgnored(p)
  \/ \E p \in Slots : Click(p)
  \/ \E p \in Slots : ClickContextFails(p)
  \/ \E p \in Slots : ResumeFulfilled(p)
  \/ \E p \in Slots : ResumeRejected(p)
  \/ \E p \in Slots : SpeechSettled(p)
  \/ \E p \in Slots : DecodeSettled(p)
  \/ SourceEnded

Spec == Init /\ [][Next]_vars

\* --------------------------------------------------------------------- App
InitApp ==
  /\ stage = "caption"
  /\ input = JsUndefined
  /\ data = << >>
  /\ numChannels = DefaultNumChannels
  /\ sampleRate = DefaultSampleRate
  /\ request = NoRequest
  /\ result = NoBuffer
  /\ dataAlt = << >>
  /\ resultAlt = NoBuffer
  /\ thrown = ""
  /\ AppIdle
  /\ CaptionIdle

\* const currentResult = translatedResult || englishResult
CurrentResult ==
  IF translatedResult # NoResult THEN translatedResult ELSE englishResult

\* handleImageUpload: the file input is rendered while no image is shown;
\* a FileReader starts reading the chosen file.
ChooseFile ==
  /\ image = 0
  /\ uploads < MaxUploads
  /\ uploads' = uploads + 1
  /\ reads' = reads \cup {uploads + 1}
  /\ UNCHANGED << decoderVars, appVars, image, isAnalyzing, isTranslating,
                  englishResult, translatedResult, selectedLang, error,
                  analysis, translations, requestFailed >>

\* reader.onloadend
FileLoaded(f) ==
  /\ f \in reads
  /\ reads' = reads \ {f}
  /\ image' = f
  /\ englishResult' = NoResult
  /\ translatedResult' = NoResult
  /\ error' = "none"
  /\ UNCHANGED << decoderVars, appVars, uploads, isAnalyzing, isTranslating,
                  selectedLang, analysis, translations, requestFailed >>

\* The Clear button, rendered while an image is shown.
ClearImage ==
  /\ image # 0
  /\ image' = 0
  /\ englishResult' = NoResult
  /\ translatedResult' = NoResult
  /\ error' = "none"
  /\ UNCHANGED << decoderVars, appVars, uploads, reads, isAnalyzing,
                  isTranslating, selectedLang, analysis, translations,
                  requestFailed >>

\* finally of startAnalysis: setIsAnalyzing(false); setIsTranslating(false)
AnalysisEnds ==
  /\ isAnalyzing' = FALSE
  /\ isTranslating' = FALSE
  /\ analysis' = NoAnalysis

\* startAnalysis up to await analyzeImage. The button is rendered while an
\* image is shown, no result is held and isAnalyzing is false. The call
\* keeps the image and selectedLang of the render it was created in.
StartAnalysis ==
  /\ image # 0
  /\ CurrentResult = NoResult
  /\ ~isAnalyzing
  /\ isAnalyzing' = TRUE
  /\ error' = "none"
  /\ analysis' = [pc |-> "awaitAnalyze", image |-> image,
                  lang |-> selectedLang, data |-> NoResult]
  /\ UNCHANGED << decoderVars, appVars, image, uploads, reads, isTranslating,
                  englishResult, translatedResult, selectedLang, translations,
                  requestFailed >>

\* analyzeImage resolves: setEnglishResult(data), then either
\* translateResult is awaited or setTranslatedResult(data) and the finally.
AnalyzeResolved ==
  /\ analysis.pc = "awaitAnalyze"
  /\ LET d == analyzeImage(analysis.image) IN
       /\ englishResult' = d
       /\ IF analysis.lang # "en"
          THEN /\ isTranslating' = TRUE
               /\ analysis' = [analysis EXCEPT !.pc = "awaitTranslate",
                                               !.data = d]
               /\ UNCHANGED << isAnalyzing, translatedResult >>
          ELSE /\ translatedResult' = d
               /\ AnalysisEnds
  /\ UNCHANGED << decoderVars, appVars, image, uploads, reads, selectedLang,
                  error, translations, requestFailed >>

\* analyzeImage, or the translateResult startAnalysis awaits, rejects.
AnalysisRejected ==
  /\ analysis.pc \in {"awaitAnalyze", "awaitTranslate"}
  /\ error' = "analysis"
  /\ AnalysisEnds
  /\ requestFailed' = TRUE
  /\ UNCHANGED << decoderVars, appVars, image, uploads, reads, englishResult,
                  translatedResult, selectedLang, translations >>

\* The translateResult startAnalysis awaits resolves.
AnalysisTranslated ==
  /\ analysis.pc = "awaitTranslate"
  /\ translatedResult' = translateResult(analysis.data, analysis.lang)
  /\ AnalysisEnds
  /\ UNCHANGED << decoderVars, appVars, image, uploads, reads, englishResult,
                  selectedLang, error, translations, requestFailed >>

\* handleLanguageChange(code) with no englishResult: setSelectedLang only.
SelectLanguage(l) ==
  /\ l # selectedLang
  /\ englishResult = NoResult
  /\ selectedLang' = l
  /\ UNCHANGED << decoderVars, appVars, image, uploads, reads, isAnalyzing,
                  isTranslating, englishResult, translatedResult, error,
                  analysis, translations, requestFailed >>

\* handleLanguageChange("en") with an englishResult: translateResult
\* returns the result without a request, so the handler runs to its end
\* before any other event.
SelectEnglish ==
  /\ selectedLang # "en"
  /\ englishResult # NoResult
  /\ selectedLang' = "en"
  /\ error' = "none"
  /\ translatedResult' = translateResult(englishResult, "en")
  /\ isTranslating' = FALSE
  /\ UNCHANGED << decoderVars, appVars, image, uploads, reads, isAnalyzing,
                  englishResult, analysis, translations, requestFailed >>

\* handleLanguageChange(code) with an englishResult, up to await
\* translateResult(englishResult, lang.name).
ChangeLanguage(l) ==
  /\ l # selectedLang
  /\ l # "en"
  /\ englishResult # NoResult
  /\ Len(translations) < MaxInFlight
  /\ selectedLang' = l
  /\ isTranslating' = TRUE
  /\ error' = "none"
  /\ translations' = Append(translations, [src |-> englishResult, lang |-> l])
  /\ UNCHANGED << decoderVars, appVars, image, uploads, reads, isAnalyzing,
                  englishResult, translatedResult, analysis, requestFailed >>

Without(seq, i) == SubSeq(seq, 1, i - 1) \o SubSeq(seq, i + 1, Len(seq))

\* A translateResult awaited by handleLanguageChange resolves.
TranslationResolved(i) ==
  /\ i \in 1..Len(translations)
  /\ translatedResult' = translateResult(translations[i].src, translations[i].lang)
  /\ isTranslating' = FALSE
  /\ translations' = Without(translations, i)
  /\ UNCHANGED << decoderVars, appVars, image, uploads, reads, isAnalyzing,
                  englishResult, selectedLang, error, analysis, requestFailed >>

\* It rejects: setError, setTranslatedResult(englishResult), finally.
TranslationRejected(i) ==
  /\ i \in 1..Len(translations)
  /\ error' = "translation"
  /\ translatedResult' = translations[i].src
  /\ isTranslating' = FALSE
  /\ translations' = Without(translations, i)
  /\ requestFailed' = TRUE
  /\ UNCHANGED << decoderVars, appVars, image, uploads, reads, isAnalyzing,
                  englishResult, selectedLang, analysis >>

NextApp ==
  \/ ChooseFile
  \/ \E f \in 1..MaxUploads : FileLoaded(f)
  \/ ClearImage
  \/ StartAnalysis
  \/ AnalyzeResolved
  \/ AnalysisRejected
  \/ AnalysisTranslated
  \/ \E l \in Langs : SelectLanguage(l)
  \/ SelectEnglish
  \/ \E l \in Langs : ChangeLanguage(l)
  \/ \E i \in 1..MaxInFlight : TranslationResolved(i)
  \/ \E i \in 1..MaxInFlight : TranslationRejected(i)

SpecApp == InitApp /\ [][NextApp]_vars

\* ------------------------------------------------ reference definitions
\* The signed 16-bit value of interleaved sample k (0-based) of a byte
\* buffer: low byte first.
RefSample(bytes, k) ==
  ((bytes[2 * k + 1] + 256 * bytes[2 * k + 2] + 32768) % 65536) - 32768

RefSampleCount(bytes) == Len(bytes) \div 2

RefFrameCount(bytes, nc) == RefSampleCount(bytes) \div nc

Decoded == stage \in {"decoded", "compared"}

OneSilentFrame(buffer, nc, sr) ==
  /\ buffer.kind = "AudioBuffer"
  /\ buffer.numberOfChannels = nc
  /\ buffer.sampleRate = sr
  /\ buffer.length = 1
  /\ Len(buffer.channelData) = nc
  /\ \A c \in 1..Len(buffer.channelData) : buffer.channelData[c] = << Zero >>

\* --------------------------------------------------------------- claims
\* C1: a byte buffer that is empty after length normalization (0 bytes, or
\* 1 byte whose trailing byte is dropped) decodes, at every sampleRate and
\* numChannels, to a buffer of exactly 1 frame per channel, every sample
\* 0.0, tagged with that sampleRate and numChannels.
C1_EmptyAfterNormalizationIsOneSilentFrame ==
  (Decoded /\ Len(data) <= 1) => OneSilentFrame(result, numChannels, sampleRate)

\* C2: for every byte buffer and numChannels, the buffer decodeAudioData
\* requests from the audio context and returns has at least 1 frame per
\* channel.
C2_NeverZeroLengthBuffer ==
  Decoded =>
    /\ request.length >= 1
    /\ result.kind = "AudioBuffer"
    /\ \A c \in 1..Len(result.channelData) : Len(result.channelData[c]) >= 1

\* C4: for a non-empty buffer of N bytes, the frame length asked of the
\* audio context is floor(floor(N / 2) / numChannels), every channel array
\* of the buffer returned has that length, and the samples of a trailing
\* partial frame reach no channel array: the channel arrays are those of
\* the buffer cut to its full frames.
C4_FloorFramesDropPartialFrame ==
  (Decoded /\ Len(data) >= 1) =>
    LET fc == RefFrameCount(data, numChannels) IN
    /\ request.length = fc
    /\ result.kind = "AudioBuffer" =>
         /\ result.length = fc
         /\ Len(result.channelData) = numChannels
         /\ \A c \in 1..Len(result.channelData) :
              Len(result.channelData[c]) = fc
         /\ result.channelData =
              decodeAudioData(SubSeq(data, 1, 2 * fc * numChannels),
                              sampleRate, numChannels).outcome.channelData

\* 7 bytes at 2 channels: 3 samples, 1 frame, the third sample left over.
C4_Witness ==
  /\ Decoded
  /\ Len(data) = 7
  /\ numChannels = 2
  /\ RefSample(data, 2) # 0
  /\ result.kind = "AudioBuffer"
  /\ result.length = 1
  /\ Len(result.channelData[1]) = 1
  /\ Len(result.channelData[2]) = 1

\* C5: for every frame index i < frameCount and channel c < numChannels,
\* destination[c][i] = S / 32768 with S the signed 16-bit little-endian
\* value of bytes 2k, 2k+1, k = i * numChannels + c.
C5_DeinterleaveLittleEndian ==
  (Decoded /\ Len(data) >= 1 /\ result.kind = "AudioBuffer") =>
    \A c \in 0..(numChannels - 1) :
      \A i \in 0..(RefFrameCount(data, numChannels) - 1) :
        /\ c + 1 <= Len(result.channelData)
        /\ i + 1 <= Len(result.channelData[c + 1])
        /\ result.channelData[c + 1][i + 1] =
             Rat(RefSample(data, i * numChannels + c), 32768)

\* Interleaved [L0,R0,L1,R1,L2,R2] = [255,-256,-1,0,-256,255] at 2 channels.
C5_Witness ==
  /\ Decoded
  /\ numChannels = 2
  /\ data = << 255, 0, 0, 255, 255, 255, 0, 0, 0, 255, 255, 0 >>
  /\ result.kind = "AudioBuffer"
  /\ result.channelData =
       << << Rat(255, 32768), Rat(-1, 32768), Rat(-256, 32768) >>,
          << Rat(-256, 32768), Rat(0, 32768), Rat(255, 32768) >> >>

\* A base64 string as RFC 4648 writes it, padding present or left out:
\* alphabet characters, then at most two "=" that complete a group of 4.
RefPadCount(s) == Cardinality({i \in 1..Len(s) : s[i] = "="})

RefBodyLen(s) == Len(s) - RefPadCount(s)

RefValidBase64(s) ==
  /\ \A i \in 1..RefBodyLen(s) : IsB64Char(s[i])
  /\ RefPadCount(s) <= 2
  /\ RefPadCount(s) > 0 => Len(s) % 4 = 0
  /\ RefBodyLen(s) % 4 # 1

RefDecodedLen(s) == (3 * RefBodyLen(s)) \div 4

\* C3: decodeBase64 of "", null or undefined gives 0 bytes without raising,
\* and decodeAudioData of those bytes gives, at any sampleRate and
\* numChannels, exactly 1 all-zero frame per channel at that rate and
\* channel count.
C3_EmptyInputIsOneSilentFrame ==
  input \in {JsNull, JsUndefined, JsString(<< >>)} =>
    /\ stage # "raised"
    /\ thrown = ""
    /\ stage \in {"bytes", "decoded"} => Len(data) = 0
    /\ stage = "decoded" =>
         /\ request.length = 1
         /\ OneSilentFrame(result, numChannels, sampleRate)

C3_Witness ==
  /\ stage = "decoded"
  /\ input = JsNull
  /\ numChannels = 2
  /\ OneSilentFrame(result, 2, sampleRate)

\* C6 as stated: every valid base64 string of even decoded byte length
\* gives, at channel count 1, frameCount = len(bytes) / 2.
C6_EvenLengthFrameCount ==
  ( /\ input.tag = "string"
    /\ RefValidBase64(input.chars)
    /\ RefDecodedLen(input.chars) % 2 = 0
    /\ numChannels = 1 ) =>
    /\ stage # "raised"
    /\ stage \in {"bytes", "decoded"} => Len(data) = RefDecodedLen(input.chars)
    /\ stage = "decoded" =>
         /\ result.kind = "AudioBuffer"
         /\ result.length = RefDecodedLen(input.chars) \div 2

\* C6 amended: every valid base64 string of even, non-zero decoded byte
\* length gives, at channel count 1, frameCount = len(bytes) / 2 with no
\* byte dropped.
C6_EvenNonEmptyFrameCount ==
  ( /\ input.tag = "string"
    /\ RefValidBase64(input.chars)
    /\ RefDecodedLen(input.chars) % 2 = 0
    /\ RefDecodedLen(input.chars) > 0
    /\ numChannels = 1 ) =>
    /\ stage # "raised"
    /\ stage \in {"bytes", "decoded"} => Len(data) = RefDecodedLen(input.chars)
    /\ stage = "decoded" =>
         /\ result.kind = "AudioBuffer"
         /\ result.length = RefDecodedLen(input.chars) \div 2
         /\ Len(result.channelData) = 1
         /\ 2 * Len(result.channelData[1]) = Len(data)

C6_Witness ==
  /\ stage = "decoded"
  /\ input.tag = "string"
  /\ RefValidBase64(input.chars)
  /\ numChannels = 1
  /\ Len(data) = 4
  /\ result.kind = "AudioBuffer"
  /\ result.length = 2
  /\ result.channelData[1][2] # Zero

\* C7: two buffers of odd length N that agree in their first N-1 bytes and
\* differ in the final byte decode, at the same sampleRate and numChannels,
\* to identical outcomes.
C7_FinalOddByteIgnored ==
  stage = "compared" => result = resultAlt

C7_Witness ==
  /\ stage = "compared"
  /\ Len(data) >= 3
  /\ Len(data) % 2 = 1
  /\ Len(dataAlt) = Len(data)
  /\ dataAlt[Len(data)] # data[Len(data)]
  /\ SubSeq(dataAlt, 1, Len(data) - 1) = SubSeq(data, 1, Len(data) - 1)
  /\ result.kind = "AudioBuffer"
  /\ \E c \in 1..Len(result.channelData) :
       \E i \in 1..Len(result.channelData[c]) : result.channelData[c][i] # Zero

\* Position of the first log entry with this name, 0 if there is none.
LogIndex(c, name) ==
  IF Logged(c, name)
  THEN CHOOSE i \in 1..Len(c.log) :
         c.log[i] = name /\ \A j \in 1..(i - 1) : c.log[j] # name
  ELSE 0

\* The latest invocation handed this string to decodeBase64.
DecodeBase64Given(s) ==
  /\ Logged(call, "decodeBase64")
  /\ ~call.response.failed
  /\ call.response.data = JsString(s)

\* The invocation ended in the failure path: nothing decoded to a buffer,
\* nothing played, the failure alert shown.
RaisedWithoutPlayback ==
  /\ call.raised = "InvalidCharacterError"
  /\ ~Logged(call, "decodeAudioData")
  /\ call.request = NoRequest
  /\ call.buffer = NoBuffer
  /\ ~Logged(call, "start")
  /\ Logged(call, "alert")
  /\ call.finished
  /\ ~call.isPlayingAtEnd
  /\ pc[call.slot] = "idle"
  /\ locals[call.slot] = NoLocals

C9_NoAudioDataNoDecode ==
  /\ ( /\ call.response.settled
       /\ \/ call.response.failed
          \/ call.response.data \in {JsUndefined, JsNull, JsString(<< >>)} )
     => /\ ~Logged(call, "decodeBase64")
        /\ ~Logged(call, "decodeAudioData")
        /\ ~Logged(call, "start")
        /\ call.buffer = NoBuffer
        /\ ~call.isPlayingAtEnd
  /\ (Logged(call, "decodeBase64") \/ Logged(call, "decodeAudioData"))
     => /\ call.response.settled
        /\ ~call.response.failed
        /\ call.response.data.tag = "string"
        /\ Len(call.response.data.chars) > 0
        /\ LogIndex(call, "generateSpeech") > 0
        /\ LogIndex(call, "generateSpeech") < LogIndex(call, "decodeBase64")
  /\ \A p \in Slots :
       pc[p] \in {"idle", "awaitResume", "awaitSpeech"} =>
         locals[p] = NoLocals

C9_Witness ==
  /\ call.finished
  /\ call.response.settled
  /\ ~call.response.failed
  /\ call.response.data = JsString(<< >>)
  /\ call.log = << "generateSpeech", "alert" >>
  /\ ~isPlaying

\* C10: at most one audio context is ever created and every later
\* invocation reuses it; an invocation that passes the guard and finds the
\* context suspended requests resume and awaits it before the speech
\* request is issued and before anything is decoded or played.
C10_OneContextResumedBeforeSpeech ==
  /\ contextsCreated <= 1
  /\ audioCtxRef \in {0, 1}
  /\ call.reused => audioCtxRef = 1
  /\ (call.suspendedAtCheck /\ Len(call.log) > 0) => call.log[1] = "resume"
  /\ (call.suspendedAtCheck /\ Logged(call, "generateSpeech")) =>
       /\ LogIndex(call, "resume") = 1
       /\ LogIndex(call, "generateSpeech") = 2
  /\ \A name \in {"decodeBase64", "decodeAudioData", "start"} :
       Logged(call, name) =>
         /\ LogIndex(call, "generateSpeech") > 0
         /\ LogIndex(call, "generateSpeech") < LogIndex(call, name)
  /\ \A p \in Slots :
       pc[p] \in {"awaitSpeech", "awaitDecode"} => ctxState = "running"
  /\ \A p \in Slots : pc[p] = "awaitResume" => ~Logged(call, "generateSpeech")

C10_Witness ==
  /\ call.reused
  /\ call.suspendedAtCheck
  /\ contextsCreated = 1
  /\ call.log = << "resume", "generateSpeech", "decodeBase64",
                   "decodeAudioData", "start" >>
  /\ isPlaying

\* No service request of the App is in flight.
NoRequestInFlight == analysis.pc = "idle" /\ translations = << >>

\* The result for the selected language: the English result itself, or
\* its translation into selectedLang.
ResultForSelectedLang ==
  IF selectedLang = "en" THEN englishResult
  ELSE [image |-> englishResult.image, lang |-> selectedLang]

\* C11: in App, when no request has failed, no request is in flight and
\* englishResult is non-null, translatedResult is the result for the
\* currently selected language, never one for a language selected before.
C11_TranslatedMatchesSelectedLang ==
  (~requestFailed /\ NoRequestInFlight /\ englishResult # NoResult) =>
    translatedResult = ResultForSelectedLang

\* C12: in App, a non-null englishResult or translatedResult was produced
\* from the image currently held: none is held after Clear, and none of an
\* earlier image after a new image is loaded.
C12_ResultsBelongToCurrentImage ==
  /\ englishResult # NoResult => (image # 0 /\ englishResult.image = image)
  /\ translatedResult # NoResult =>
       (image # 0 /\ translatedResult.image = image)

====
